---------------------------- MODULE Spec2Model ----------------------------
(***************************************************************************)
(* Model of src/telegram.py: a webhook-driven Telegram bot that answers    *)
(* free text by keyword matching, answers three inline buttons, and sends  *)
(* one broadcast per day from a background scheduler thread.               *)
(*                                                                         *)
(* Conventions.                                                            *)
(*  - An inbound text is a sequence of one-character strings, so that      *)
(*    str.lower() and the substring test `keyword in message_lower` are    *)
(*    computed character by character.                                     *)
(*  - An outbound text is a TLA+ string built with \o exactly as the code  *)
(*    builds it with += and f-strings.  TLA+ strings are ASCII, so each    *)
(*    emoji of the source is written as its name between colons:           *)
(*    :earth: :handshake: :seedling: :qmark: :robot: :elephant: :bee:      *)
(*  - Time is counted in polling intervals (one time.sleep(1) of the       *)
(*    scheduler loop is one tick); a calendar day is DayLen ticks.         *)
(***************************************************************************)
EXTENDS Integers, Sequences, FiniteSets, TLC

VARIABLES
    TEAM_MEMBERS,        \* module-level list, src/telegram.py:24
    ECOSYSTEMS,          \* module-level list, src/telegram.py:47
    FAQS,                \* module-level list, src/telegram.py:66
    conversation_state,  \* ConversationHandler.conversation_state, :88
    arg_text,            \* argument of a direct process_message call
    arg_chat,            \* chat id of a direct process_message call
    ret_text,            \* <<value returned by that call>>, <<>> before it
    main_pc,             \* position of the main thread (:224-226)
    req,                 \* per request thread: the request it handles or
                         \* handled last (see IdleSlot)
    sched_pc,            \* position of the scheduler thread (:148-152)
    now,                 \* int(time.time()), in ticks
    tz,                  \* offset of the process's local time from unix time
    next_run,            \* the daily job's next_run (local time), schedule
    last_run,            \* <<the daily job's last_run (local time)>>, <<>> for None
    started_at,          \* <<local time at which run_scheduler began>>, or <<>>
    died_at,             \* <<local time at which the scheduler thread died>>, or <<>>
    bcast                \* every bot.send_message call of the daily job

content_vars == <<TEAM_MEMBERS, ECOSYSTEMS, FAQS, conversation_state>>
call_vars    == <<arg_text, arg_chat, ret_text>>
req_vars     == <<req>>
sched_vars   == <<sched_pc, now, tz, next_run, last_run, started_at, died_at, bcast>>
vars == <<content_vars, call_vars, main_pc, req_vars, sched_vars>>

----------------------------------------------------------------------------
(* Bounds of the model.                                                    *)

\* Number of fragments an enumerated inbound text is put together from.
MaxParts == 2
\* Ticks of one calendar day (86400 polling intervals in the program).
DayLen == 6
\* Tick of the day of the "09:00" fire time.
FireAt == 2
\* Last tick the clock is followed to.
MaxTime == 19
\* Largest offset of local time from unix time that is enumerated.
MaxTz == 3
\* Longest time, in ticks, an outbound broadcast send stays blocked before
\* the transport returns or raises (it stays below one day).
MaxBlock == 2

----------------------------------------------------------------------------
(* The content tables as the module sets them at import time.              *)

TeamMembersData ==
  << [name |-> "Henry Kimani", role |-> "CEO & co-founder", description |-> "Software Engineer."],
     [name |-> "Bridgit Nyambeka", role |-> "Project Manager & co-founder", description |-> "Software Engineer & Graphic Designer"],
     [name |-> "Mirriam Njeri", role |-> "Marketing, Community lead & co-founder", description |-> "Journalist & software developer."],
     [name |-> "Brandistone Nyabonyi", role |-> "CTO & co-founder", description |-> "Software Engineer"] >>

EcosystemsData ==
  << [title |-> "Marine Conservation", description |-> "Protecting ocean biodiversity through blockchain-powered initiatives"],
     [title |-> "Forest Preservation", description |-> "Securing critical forest habitats and supporting reforestation efforts"],
     [title |-> "Alpine Ecosystem", description |-> "Safeguarding high-altitude wildlife and fragile mountain environments"],
     [title |-> "Migratory Pathways", description |-> "Tracking and protecting critical migration routes for endangered species"] >>

FaqsData ==
  << [question |-> "What is our primary mission?", answer |-> "We aim to leverage blockchain technology to support wildlife conservation efforts, creating unique digital assets that directly contribute to ecosystem preservation."],
     [question |-> "How do NFTs support conservation?", answer |-> "Each NFT represents a direct contribution to wildlife protection, with proceeds funding conservation projects, research, and habitat preservation."],
     [question |-> "Can anyone join the community?", answer |-> "Absolutely! We welcome anyone passionate about wildlife conservation and innovative blockchain solutions to join our global community."],
     [question |-> "How are funds used?", answer |-> "Funds are carefully allocated to vetted conservation projects, scientific research, and community-driven initiatives that protect endangered ecosystems."] >>

\* ConversationHandler.__init__: self.conversation_state = {}
EmptyDict == [c \in {} |-> ""]

\* The two string constants process_message returns.
MissionText ==
  ":earth: Steppe Pulse Mission:\nWe're pioneering a revolutionary intersection of blockchain technology and wildlife conservation. \nOur mission is to transform digital assets into powerful conservation tools, connecting passionate global citizens with critical environmental challenges."

FallbackText ==
  ":robot: I'm an intelligent bot for Steppe Pulse Wildlife Conservation. \nI can help you with information about our mission, team, ecosystems, and NFT projects. \nTry asking about our mission, team, ecosystems, or frequently asked questions!"

----------------------------------------------------------------------------
(* Inbound text: str.lower() and the `in` substring test.                  *)

Uppers == <<"A","B","C","D","E","F","G","H","I","J","K","L","M",
            "N","O","P","Q","R","S","T","U","V","W","X","Y","Z">>
Lowers == <<"a","b","c","d","e","f","g","h","i","j","k","l","m",
            "n","o","p","q","r","s","t","u","v","w","x","y","z">>

\* str.lower() of one character.
LowerChar(c) ==
  IF \E i \in 1..Len(Uppers) : Uppers[i] = c
    THEN Lowers[CHOOSE i \in 1..Len(Uppers) : Uppers[i] = c]
    ELSE c

\* message.lower()
Lower(s) == [i \in 1..Len(s) |-> LowerChar(s[i])]

\* keyword in s
Contains(kw, s) ==
  \E i \in 1..(Len(s) - Len(kw) + 1) : SubSeq(s, i, i + Len(kw) - 1) = kw

\* any(keyword in s for keyword in keywords)
AnyKeyword(keywords, s) ==
  \E k \in 1..Len(keywords) : Contains(keywords[k], s)

MissionKeywords ==
  << <<"m","i","s","s","i","o","n">>, <<"g","o","a","l">>,
     <<"p","u","r","p","o","s","e">> >>
TeamKeywords ==
  << <<"t","e","a","m">>, <<"f","o","u","n","d","e","r">>,
     <<"m","e","m","b","e","r","s">> >>
EcosystemKeywords ==
  << <<"e","c","o","s","y","s","t","e","m">>,
     <<"c","o","n","s","e","r","v","a","t","i","o","n">>,
     <<"p","r","o","j","e","c","t">> >>
FaqKeywords ==
  << <<"h","e","l","p">>, <<"q","u","e","s","t","i","o","n">>,
     <<"f","a","q">> >>


----------------------------------------------------------------------------
(* ConversationHandler.process_message (90-126).                           *)

RECURSIVE pm_team_loop(_, _)
\* for member in TEAM_MEMBERS: team_info += f"*{name}* - {role}\n{description}\n\n"
pm_team_loop(team_info, i) ==
  IF i > Len(TEAM_MEMBERS) THEN team_info
  ELSE pm_team_loop(team_info \o "*" \o TEAM_MEMBERS[i].name \o "* - "
                      \o TEAM_MEMBERS[i].role \o "\n"
                      \o TEAM_MEMBERS[i].description \o "\n\n", i + 1)

RECURSIVE pm_ecosystem_loop(_, _)
\* for ecosystem in ECOSYSTEMS: ecosystem_info += f"*{title}*\n{description}\n\n"
pm_ecosystem_loop(ecosystem_info, i) ==
  IF i > Len(ECOSYSTEMS) THEN ecosystem_info
  ELSE pm_ecosystem_loop(ecosystem_info \o "*" \o ECOSYSTEMS[i].title \o "*\n"
                           \o ECOSYSTEMS[i].description \o "\n\n", i + 1)

RECURSIVE pm_faq_loop(_, _)
\* for faq in FAQS: faq_info += f"*Q: {question}*\nA: {answer}\n\n"
pm_faq_loop(faq_info, i) ==
  IF i > Len(FAQS) THEN faq_info
  ELSE pm_faq_loop(faq_info \o "*Q: " \o FAQS[i].question \o "*\nA: "
                     \o FAQS[i].answer \o "\n\n", i + 1)

\* A slip in the order of the tests: the Team test before the Mission test.
process_message_TeamFirst(chat_id, message) ==
  LET message_lower == Lower(message) IN
  IF AnyKeyword(TeamKeywords, message_lower)
    THEN pm_team_loop(":handshake: Our Founding Team:\n\n", 1)
  ELSE IF AnyKeyword(MissionKeywords, message_lower)
    THEN MissionText
  ELSE IF AnyKeyword(EcosystemKeywords, message_lower)
    THEN pm_ecosystem_loop(":seedling: Our Conservation Ecosystems:\n\n", 1)
  ELSE IF AnyKeyword(FaqKeywords, message_lower)
    THEN pm_faq_loop(":qmark: Frequently Asked Questions:\n\n", 1)
  ELSE FallbackText

\* A "context-aware" reply: the fallback names the chat it answers.
process_message_PerChat(chat_id, message) ==
  LET message_lower == Lower(message) IN
  IF AnyKeyword(MissionKeywords, message_lower)
    THEN MissionText
  ELSE IF AnyKeyword(TeamKeywords, message_lower)
    THEN pm_team_loop(":handshake: Our Founding Team:\n\n", 1)
  ELSE IF AnyKeyword(EcosystemKeywords, message_lower)
    THEN pm_ecosystem_loop(":seedling: Our Conservation Ecosystems:\n\n", 1)
  ELSE IF AnyKeyword(FaqKeywords, message_lower)
    THEN pm_faq_loop(":qmark: Frequently Asked Questions:\n\n", 1)
  ELSE FallbackText \o " " \o chat_id

\* The value process_message returns; it reads the three tables and neither
\* reads nor writes conversation_state, and never uses chat_id.
process_message(chat_id, message) ==
  LET message_lower == Lower(message) IN
  IF AnyKeyword(MissionKeywords, message_lower)
    THEN MissionText
  ELSE IF AnyKeyword(TeamKeywords, message_lower)
    THEN pm_team_loop(":handshake: Our Founding Team:\n\n", 1)
  ELSE IF AnyKeyword(EcosystemKeywords, message_lower)
    THEN pm_ecosystem_loop(":seedling: Our Conservation Ecosystems:\n\n", 1)
  ELSE IF AnyKeyword(FaqKeywords, message_lower)
    THEN pm_faq_loop(":qmark: Frequently Asked Questions:\n\n", 1)
  ELSE FallbackText

----------------------------------------------------------------------------
(* The Telegram handlers (155-201).  A handler's run is the sequence of    *)
(* outbound calls it makes.  Each call blocks in the transport; fail_at is *)
(* the position of the call the run has got to and no further (0: the run  *)
(* is complete), so that a run is followed call by call.                   *)

WelcomeText ==
  ":earth: Welcome to Steppe Pulse Conservation Bot! \n\nI'm your intelligent assistant for wildlife conservation and blockchain innovation. \nWhat would you like to know about our mission, team, or conservation efforts?\n\nQuick Commands:\n/mission - Learn about our vision\n/team - Meet our founders\n/ecosystems - Explore our conservation focus areas\n/faq - Frequently Asked Questions"

\* One outbound call of the bot object.
Call(fn, chat, text) == [fn |-> fn, chat |-> chat, text |-> text]

\* What a handler has done: the calls it has made (the one it is in, or
\* that raised, last), the response texts it has produced, and whether it
\* stands at call fail_at.
Ran(calls, texts, fail_at) ==
  LET made == IF fail_at \in 1..Len(calls) THEN SubSeq(calls, 1, fail_at) ELSE calls IN
  [calls  |-> made,
   texts  |-> texts,
   raised |-> fail_at \in 1..Len(calls)]

\* send_welcome (156-176): one reply_to carrying welcome_text and the markup.
send_welcome(message, fail_at) ==
  Ran(<<Call("reply_to", message.chat, WelcomeText)>>, <<WelcomeText>>, fail_at)

\* handle_message (179-182).
handle_message(message, fail_at) ==
  LET response == process_message(message.chat, message.text) IN
  Ran(<<Call("reply_to", message.chat, response)>>, <<response>>, fail_at)

RECURSIVE cb_team_loop(_, _)
\* callback_query, 193-194
cb_team_loop(team_info, i) ==
  IF i > Len(TEAM_MEMBERS) THEN team_info
  ELSE cb_team_loop(team_info \o "*" \o TEAM_MEMBERS[i].name \o "* - "
                      \o TEAM_MEMBERS[i].role \o "\n"
                      \o TEAM_MEMBERS[i].description \o "\n\n", i + 1)

RECURSIVE cb_ecosystem_loop(_, _)
\* callback_query, 199-200
cb_ecosystem_loop(ecosystem_info, i) ==
  IF i > Len(ECOSYSTEMS) THEN ecosystem_info
  ELSE cb_ecosystem_loop(ecosystem_info \o "*" \o ECOSYSTEMS[i].title \o "*\n"
                           \o ECOSYSTEMS[i].description \o "\n\n", i + 1)

\* The response text is built after answer_callback_query has returned, so a
\* run that is in its first call, or whose first call raised, has produced
\* no response text.
CallbackRan(call, notice, text, fail_at) ==
  Ran(<<Call("answer_callback_query", call.id, notice),
        Call("send_message", call.chat, text)>>,
      IF fail_at = 1 THEN <<>> ELSE <<text>>, fail_at)

\* The "mission" button answered like the Mission text of process_message.
callback_query_MissionConstant(call, fail_at) ==
  IF call.data = "mission" THEN
    CallbackRan(call, "Our Mission", MissionText, fail_at)
  ELSE IF call.data = "team" THEN
    CallbackRan(call, "Our Team",
                cb_team_loop(":handshake: Our Founding Team:\n\n", 1), fail_at)
  ELSE IF call.data = "ecosystems" THEN
    CallbackRan(call, "Conservation Ecosystems",
                cb_ecosystem_loop(":seedling: Our Conservation Ecosystems:\n\n", 1), fail_at)
  ELSE Ran(<<>>, <<>>, 0)

\* The "team" button leaving out the members' descriptions.
callback_query_NoDescription(call, fail_at) ==
  IF call.data = "mission" THEN
    CallbackRan(call, "Our Mission", FAQS[1].answer, fail_at)
  ELSE IF call.data = "team" THEN
    CallbackRan(call, "Our Team",
                ":handshake: Our Founding Team:\n\n"
                  \o "*" \o TEAM_MEMBERS[1].name \o "* - " \o TEAM_MEMBERS[1].role \o "\n\n",
                fail_at)
  ELSE IF call.data = "ecosystems" THEN
    CallbackRan(call, "Conservation Ecosystems",
                cb_ecosystem_loop(":seedling: Our Conservation Ecosystems:\n\n", 1), fail_at)
  ELSE Ran(<<>>, <<>>, 0)

\* callback_query (185-201); FAQS[0] of the source is FAQS[1] here.
callback_query(call, fail_at) ==
  IF call.data = "mission" THEN
    CallbackRan(call, "Our Mission", FAQS[1].answer, fail_at)
  ELSE IF call.data = "team" THEN
    CallbackRan(call, "Our Team",
                cb_team_loop(":handshake: Our Founding Team:\n\n", 1), fail_at)
  ELSE IF call.data = "ecosystems" THEN
    CallbackRan(call, "Conservation Ecosystems",
                cb_ecosystem_loop(":seedling: Our Conservation Ecosystems:\n\n", 1), fail_at)
  ELSE Ran(<<>>, <<>>, 0)


----------------------------------------------------------------------------
(* Updates and their dispatch (155, 178, 184, 205-210).                    *)

Message(chat, text) ==
  [kind |-> "message", chat |-> chat, id |-> "", text |-> text, data |-> ""]
CallbackQuery(chat, data) ==
  [kind |-> "callback", chat |-> chat, id |-> "query", text |-> <<>>, data |-> data]
\* A request body Update.de_json cannot decode.
Malformed ==
  [kind |-> "malformed", chat |-> "", id |-> "", text |-> <<>>, data |-> ""]
NoUpdate ==
  [kind |-> "none", chat |-> "", id |-> "", text |-> <<>>, data |-> ""]

IsBlank(c) == c \in {" ", "\n", "\t"}

\* The command of a text: the first whitespace-delimited word, cut at "@",
\* without its leading "/" (<<>> when the text does not start with "/").
CommandOf(text) ==
  IF Len(text) = 0 \/ text[1] # "/" THEN <<>>
  ELSE LET stops == {i \in 1..Len(text) : IsBlank(text[i]) \/ text[i] = "@"}
           last  == IF stops = {} THEN Len(text)
                    ELSE (CHOOSE i \in stops : \A j \in stops : i <= j) - 1
       IN SubSeq(text, 2, last)

\* Every handler whose filter passes is run, not only the first.
HandlersFor_AllMatching(update) ==
  IF update.kind = "message" THEN
    IF CommandOf(update.text) = <<"s","t","a","r","t">>
      THEN <<"send_welcome", "handle_message">>
      ELSE <<"handle_message">>
  ELSE IF update.kind = "callback" THEN <<"callback_query">>
  ELSE <<>>

\* The handlers the bot runs for an update: message handlers are tried in
\* the order they were registered and only the first whose filter passes is
\* run (commands=['start'] at 155, then func=lambda message: True at 178).
HandlersFor(update) ==
  IF update.kind = "message" THEN
    IF CommandOf(update.text) = <<"s","t","a","r","t">>
      THEN <<"send_welcome">>
      ELSE <<"handle_message">>
  ELSE IF update.kind = "callback" THEN <<"callback_query">>
  ELSE <<>>

RunHandler(h, update, fail_at) ==
  IF h = "send_welcome" THEN send_welcome(update, fail_at)
  ELSE IF h = "handle_message" THEN handle_message(update, fail_at)
  ELSE callback_query(update, fail_at)

RECURSIVE RunHandlers(_, _, _, _)
\* The handlers of hs from position i on, up to the call fail_at.
RunHandlers(hs, i, update, fail_at) ==
  IF i > Len(hs) THEN [calls |-> <<>>, texts |-> <<>>, raised |-> FALSE]
  ELSE LET r == RunHandler(hs[i], update, fail_at) IN
       IF r.raised THEN r
       ELSE LET rest == RunHandlers(hs, i + 1, update, fail_at) IN
            [calls  |-> r.calls \o rest.calls,
             texts  |-> r.texts \o rest.texts,
             raised |-> rest.raised]

\* A handler that notes the chat before it answers.
conversation_state_after_Noted(update) ==
  IF update.kind \in {"message", "callback"}
    THEN (update.chat :> "seen") @@ conversation_state
    ELSE conversation_state

\* conversation_state once an update has been handled: no handler and no
\* method of ConversationHandler assigns to it after __init__.
conversation_state_after(update) == conversation_state

ChatIds == {"chat_1", "chat_2"}

\* os.getenv('ADMIN_CHAT_ID')
ADMIN_CHAT_ID == "admin_chat"

\* The callback data the webhook is driven with: the three the buttons of
\* the welcome message carry (165-167) and one no button carries.
CallbackData == {"mission", "team", "ecosystems", "faq"}

\* The updates the webhook is driven with: a command, a text of a topic from
\* either chat, a text of no topic, every callback, and a body that is no
\* update.
Updates ==
  { Message("chat_1", <<"/","s","t","a","r","t"," ","m","i","s","s","i","o","n">>),
    Message("chat_2", <<"h","e","l","l","o">>),
    Malformed }
    \cup { Message(c, <<"T","E","A","M">>) : c \in ChatIds }
    \cup { CallbackQuery("chat_1", d) : d \in CallbackData }

\* The threads that handle updates: app.run serves each request on a thread
\* of its own, so that the handlings of two updates can be in flight at
\* once.  (Whether the bot runs a handler on the request's thread or hands it
\* to a thread of its own pool is the library's choice at TeleBot(BOT_TOKEN),
\* 21; a thread here is the one the handler runs on.)
Workers == {"request_1", "request_2"}

\* A request thread that has served nothing yet.  stage is "idle", "in_call"
\* (inside the outbound call calls[Len(calls)]), "ok" (the handling ended)
\* or "failed" (the decoding or an outbound call raised; which HTTP response
\* the sender of the update then gets is not modelled).  in_send is history: the scheduler
\* thread was inside bot.send_message during the whole handling.
IdleSlot ==
  [update |-> NoUpdate, handlers |-> <<>>, calls |-> <<>>, texts |-> <<>>,
   stage |-> "idle", in_send |-> FALSE]

\* The handling of update by handlers hs as it goes on to its k-th outbound
\* call: inside that call, or ended when the handlers make no k-th call.
Progress(update, hs, k, in_send) ==
  LET r == RunHandlers(hs, 1, update, k) IN
  [update |-> update, handlers |-> hs, calls |-> r.calls, texts |-> r.texts,
   stage |-> IF r.raised THEN "in_call" ELSE "ok", in_send |-> in_send]

\* Thread w is handling no request.
Free(w) == req[w].stage \in {"idle", "ok", "failed"}

\* webhook (205-210) is entered on thread w, the first free one (which one
\* of the free threads serves a request makes no difference): the body is
\* decoded and the bot processes the update, up to the first outbound call
\* of its handler.
WebhookBegins(w, update) ==
  /\ main_pc = "serving"
  /\ Free(w)
  /\ w = "request_1" \/ ~Free("request_1")
  /\ req' = [req EXCEPT ![w] =
       IF update.kind = "malformed"
         THEN [IdleSlot EXCEPT !.update = update, !.stage = "failed"]
         ELSE Progress(update, HandlersFor(update), 1, sched_pc = "sending")]
  /\ conversation_state' = conversation_state_after(update)
  /\ UNCHANGED <<TEAM_MEMBERS, ECOSYSTEMS, FAQS>>
  /\ UNCHANGED <<call_vars, main_pc, sched_vars>>

\* The outbound call thread w is inside returns: the handler goes on to its
\* next call (send_message after answer_callback_query) or ends.
CallReturns(w) ==
  /\ req[w].stage = "in_call"
  /\ req' = [req EXCEPT ![w] =
       Progress(req[w].update, req[w].handlers, Len(req[w].calls) + 1,
                req[w].in_send /\ sched_pc = "sending")]
  /\ UNCHANGED <<content_vars, call_vars, main_pc, sched_vars>>

\* The outbound call thread w is inside raises: the handler makes no
\* further call.
CallRaises(w) ==
  /\ req[w].stage = "in_call"
  /\ req' = [req EXCEPT ![w].stage = "failed"]
  /\ UNCHANGED <<content_vars, call_vars, main_pc, sched_vars>>

\* A step of the request handling.
RequestStep ==
  \/ \E w \in Workers : \E u \in Updates : WebhookBegins(w, u)
  \/ \E w \in Workers : CallReturns(w)
  \/ \E w \in Workers : CallRaises(w)

----------------------------------------------------------------------------
(* The daily job and the scheduler thread (132-152, 218-226).              *)

\* updates of send_daily_conservation_update (136-141)
DailyUpdates ==
  << ":elephant: Did you know? African elephants are keystone species crucial for maintaining ecosystem balance.",
     ":earth: Every NFT purchased helps protect critical wildlife habitats around the globe!",
     ":seedling: Reforestation update: Our latest project has planted 1000 trees in critical forest zones.",
     ":bee: Biodiversity matters: Pollinators like bees are essential for global food security." >>

\* datetime.now(): local time of unix time t
Local(t) == t + tz
DayOf(l) == l \div DayLen
TimeOfDay(l) == l % DayLen
\* l.replace(hour=9, minute=0, second=0): the fire time of l's day
AtTime(l) == DayOf(l) * DayLen + FireAt

\* The update picked by the number of the day instead of the timestamp.
send_daily_conservation_update_ByDay(t) ==
  Call("send_message", ADMIN_CHAT_ID,
       DailyUpdates[(DayOf(Local(t)) % Len(DailyUpdates)) + 1])

\* send_daily_conservation_update run at unix time t: its one outbound call
\* (145); index i of the source's list is index i + 1 here.
send_daily_conservation_update(t) ==
  Call("send_message", ADMIN_CHAT_ID, DailyUpdates[(t % Len(DailyUpdates)) + 1])

\* The next run taken as the fire time of the current day.
ScheduleNextRun_SameDay(l_now, l_last) == AtTime(l_now)

\* Job._schedule_next_run of every().day.at("09:00") at local time l_now with
\* last_run l_last (<<>> for None): one period ahead, moved to the fire time
\* of that day, and a day back when the job has not run within the period
\* and today's fire time is still ahead.
ScheduleNextRun(l_now, l_last) ==
  LET ahead == AtTime(l_now + DayLen) IN
  IF /\ (l_last = <<>> \/ ahead - l_last[1] > DayLen)
     /\ FireAt > TimeOfDay(l_now)
    THEN ahead - DayLen
    ELSE ahead

\* run_scheduler called on the main thread, which then never serves.
start_bot_Inline == [main |-> "in_scheduler", sched |-> "start"]

\* start_bot (218-222): the scheduler gets a thread of its own and the main
\* thread goes on.
start_bot == [main |-> "started", sched |-> "start"]

\* __main__, 225: start_bot().
StartBot ==
  /\ main_pc = "init"
  /\ main_pc' = start_bot.main
  /\ sched_pc' = start_bot.sched
  /\ UNCHANGED <<content_vars, call_vars, req_vars>>
  /\ UNCHANGED <<now, tz, next_run, last_run, started_at, died_at, bcast>>

\* __main__, 226: app.run binds the port and serves.
AppRun ==
  /\ main_pc = "started"
  /\ main_pc' = "serving"
  /\ UNCHANGED <<content_vars, call_vars, req_vars, sched_vars>>

\* __main__, 226: app.run raises (the port is taken); the main thread ends
\* and the scheduler thread goes on.
AppRunRaises ==
  /\ main_pc = "started"
  /\ main_pc' = "exited"
  /\ UNCHANGED <<content_vars, call_vars, req_vars, sched_vars>>

\* run_scheduler, 149: the job is registered and its first run computed.
Register ==
  /\ sched_pc = "start"
  /\ started_at' = <<Local(now)>>
  /\ next_run' = ScheduleNextRun(Local(now), <<>>)
  /\ sched_pc' = "poll"
  /\ UNCHANGED <<content_vars, call_vars, main_pc, req_vars>>
  /\ UNCHANGED <<now, tz, last_run, died_at, bcast>>

\* run_scheduler, 151: schedule.run_pending() finds the job due
\* (now >= next_run) and calls it; the job is inside bot.send_message.
RunPendingDue ==
  /\ sched_pc = "poll"
  /\ Local(now) >= next_run
  /\ LET c == send_daily_conservation_update(now) IN
       bcast' = Append(bcast, [T |-> now, at |-> Local(now), chat |-> c.chat,
                               text |-> c.text, outcome |-> "pending"])
  /\ sched_pc' = "sending"
  /\ UNCHANGED <<content_vars, call_vars, main_pc, req_vars>>
  /\ UNCHANGED <<now, tz, next_run, last_run, started_at, died_at>>

\* run_scheduler, 151-152: nothing is due, the loop goes to sleep.
RunPendingIdle ==
  /\ sched_pc = "poll"
  /\ Local(now) < next_run
  /\ sched_pc' = "sleep"
  /\ UNCHANGED <<content_vars, call_vars, main_pc, req_vars>>
  /\ UNCHANGED <<now, tz, next_run, last_run, started_at, died_at, bcast>>

\* bot.send_message returns: Job.run sets last_run, computes next_run, and
\* the loop goes to sleep.
SendReturns ==
  /\ sched_pc = "sending"
  /\ bcast' = [bcast EXCEPT ![Len(bcast)].outcome = "ok"]
  /\ last_run' = <<Local(now)>>
  /\ next_run' = ScheduleNextRun(Local(now), <<Local(now)>>)
  /\ sched_pc' = "sleep"
  /\ UNCHANGED <<content_vars, call_vars, main_pc, req_vars>>
  /\ UNCHANGED <<now, tz, started_at, died_at>>

\* bot.send_message raises: nothing between the call and the top of the
\* thread catches, so the exception leaves run_pending and the while loop,
\* and the thread ends with the job neither marked run nor rescheduled.
SendRaises ==
  /\ sched_pc = "sending"
  /\ bcast' = [bcast EXCEPT ![Len(bcast)].outcome = "raised"]
  /\ died_at' = <<Local(now)>>
  /\ sched_pc' = "dead"
  /\ UNCHANGED <<content_vars, call_vars, main_pc, req_vars>>
  /\ UNCHANGED <<now, tz, next_run, last_run, started_at>>

\* The send stays blocked in the transport while the clock advances.
SendBlocks ==
  /\ sched_pc = "sending"
  /\ now < MaxTime
  /\ now - bcast[Len(bcast)].T < MaxBlock
  /\ now' = now + 1
  /\ UNCHANGED <<content_vars, call_vars, main_pc, req_vars>>
  /\ UNCHANGED <<sched_pc, tz, next_run, last_run, started_at, died_at, bcast>>

\* run_scheduler, 152: time.sleep(1), then the next round of the loop.
Sleep ==
  /\ sched_pc = "sleep"
  /\ now < MaxTime
  /\ now' = now + 1
  /\ sched_pc' = "poll"
  /\ UNCHANGED <<content_vars, call_vars, main_pc, req_vars>>
  /\ UNCHANGED <<tz, next_run, last_run, started_at, died_at, bcast>>

\* The clock goes on after the scheduler thread has ended.
ClockAfterThreadEnd ==
  /\ sched_pc = "dead"
  /\ now < MaxTime
  /\ now' = now + 1
  /\ UNCHANGED <<content_vars, call_vars, main_pc, req_vars>>
  /\ UNCHANGED <<sched_pc, tz, next_run, last_run, started_at, died_at, bcast>>

\* A step of the scheduler thread.
SchedulerStep ==
  \/ Register
  \/ RunPendingDue
  \/ RunPendingIdle
  \/ SendReturns
  \/ SendRaises
  \/ SendBlocks
  \/ Sleep

----------------------------------------------------------------------------
(* Direct calls of process_message on enumerated texts.                    *)

Fragments ==
  { MissionKeywords[k] : k \in 1..3 } \cup { TeamKeywords[k] : k \in 1..3 }
    \cup { EcosystemKeywords[k] : k \in 1..3 } \cup { FaqKeywords[k] : k \in 1..3 }
    \cup { <<"M","I","S","S","I","O","N">>, <<"T","e","a","m">>, <<"F","A","Q">>,
           <<"m","i","s","s","i","o">>, <<"n">>, <<"h","e","l">>, <<"p">>,
           <<" ">>, <<"i","l","e">>, <<"w","h","a","t"," ","i","s"," ">>,
           <<"/","s","t","a","r","t">> }

RECURSIVE TextsOf(_)
\* The texts put together from at most n fragments.
TextsOf(n) ==
  IF n = 0 THEN { <<>> }
  ELSE LET shorter == TextsOf(n - 1) IN
       shorter \cup { t \o f : t \in shorter, f \in Fragments }

InputTexts == TextsOf(MaxParts)

\* conversation_handler.process_message(arg_chat, arg_text)
CallProcessMessage ==
  /\ ret_text = <<>>
  /\ ret_text' = <<process_message(arg_chat, arg_text)>>
  /\ UNCHANGED <<arg_text, arg_chat, content_vars, main_pc, req_vars, sched_vars>>

----------------------------------------------------------------------------
(* Specifications.                                                         *)

InitContent ==
  /\ TEAM_MEMBERS = TeamMembersData
  /\ ECOSYSTEMS = EcosystemsData
  /\ FAQS = FaqsData
  /\ conversation_state = EmptyDict

InitRequests == req = [w \in Workers |-> IdleSlot]

InitScheduler ==
  /\ main_pc = "init"
  /\ sched_pc = "none"
  /\ now \in 0..(DayLen - 1)
  /\ tz \in 0..MaxTz
  /\ next_run = 0
  /\ last_run = <<>>
  /\ started_at = <<>>
  /\ died_at = <<>>
  /\ bcast = <<>>

\* The process as it is started, at any time of the day and with any offset
\* of local time.
InitSched ==
  /\ InitContent
  /\ InitRequests
  /\ InitScheduler
  /\ arg_text = <<>>
  /\ arg_chat = ""
  /\ ret_text = <<>>

\* The process is started two ticks before the last tick the clock is
\* followed to ...
StartTime == MaxTime - 2

\* ... on a host whose local time is then one tick before the job's time.
StartTz == (FireAt - 1 - StartTime) % DayLen

\* The process as it is started then: both threads and the webhook.
Init ==
  /\ InitContent
  /\ InitRequests
  /\ main_pc = "init"
  /\ sched_pc = "none"
  /\ now = StartTime
  /\ tz = StartTz
  /\ next_run = 0
  /\ last_run = <<>>
  /\ started_at = <<>>
  /\ died_at = <<>>
  /\ bcast = <<>>
  /\ arg_text = <<>>
  /\ arg_chat = ""
  /\ ret_text = <<>>

Next ==
  \/ StartBot
  \/ AppRun
  \/ AppRunRaises
  \/ SchedulerStep
  \/ RequestStep

Spec == Init /\ [][Next]_vars

\* The scheduler thread and the main thread, no request arriving.
NextSched ==
  \/ StartBot
  \/ AppRun
  \/ AppRunRaises
  \/ SchedulerStep
  \/ ClockAfterThreadEnd

SpecSched == InitSched /\ [][NextSched]_vars

\* process_message called once on each enumerated text.
InitClassify ==
  /\ InitContent
  /\ InitRequests
  /\ InitScheduler
  /\ now = 0
  /\ tz = 0
  /\ arg_text \in InputTexts
  /\ arg_chat \in ChatIds
  /\ ret_text = <<>>

NextClassify == CallProcessMessage

SpecClassify == InitClassify /\ [][NextClassify]_vars


----------------------------------------------------------------------------
(* The replies as the specification words them, written out in full.       *)

TeamListing ==
  ":handshake: Our Founding Team:\n\n*Henry Kimani* - CEO & co-founder\nSoftware Engineer.\n\n*Bridgit Nyambeka* - Project Manager & co-founder\nSoftware Engineer & Graphic Designer\n\n*Mirriam Njeri* - Marketing, Community lead & co-founder\nJournalist & software developer.\n\n*Brandistone Nyabonyi* - CTO & co-founder\nSoftware Engineer\n\n"

EcosystemListing ==
  ":seedling: Our Conservation Ecosystems:\n\n*Marine Conservation*\nProtecting ocean biodiversity through blockchain-powered initiatives\n\n*Forest Preservation*\nSecuring critical forest habitats and supporting reforestation efforts\n\n*Alpine Ecosystem*\nSafeguarding high-altitude wildlife and fragile mountain environments\n\n*Migratory Pathways*\nTracking and protecting critical migration routes for endangered species\n\n"

FaqListing ==
  ":qmark: Frequently Asked Questions:\n\n*Q: What is our primary mission?*\nA: We aim to leverage blockchain technology to support wildlife conservation efforts, creating unique digital assets that directly contribute to ecosystem preservation.\n\n*Q: How do NFTs support conservation?*\nA: Each NFT represents a direct contribution to wildlife protection, with proceeds funding conservation projects, research, and habitat preservation.\n\n*Q: Can anyone join the community?*\nA: Absolutely! We welcome anyone passionate about wildlife conservation and innovative blockchain solutions to join our global community.\n\n*Q: How are funds used?*\nA: Funds are carefully allocated to vetted conservation projects, scientific research, and community-driven initiatives that protect endangered ecosystems.\n\n"

FirstFaqAnswer ==
  "We aim to leverage blockchain technology to support wildlife conservation efforts, creating unique digital assets that directly contribute to ecosystem preservation."

ReforestationUpdate ==
  ":seedling: Reforestation update: Our latest project has planted 1000 trees in critical forest zones."

\* The keyword sets in their order of priority, and the reply of each.
TopicKeywords ==
  << { <<"m","i","s","s","i","o","n">>, <<"g","o","a","l">>, <<"p","u","r","p","o","s","e">> },
     { <<"t","e","a","m">>, <<"f","o","u","n","d","e","r">>, <<"m","e","m","b","e","r","s">> },
     { <<"e","c","o","s","y","s","t","e","m">>, <<"c","o","n","s","e","r","v","a","t","i","o","n">>,
       <<"p","r","o","j","e","c","t">> },
     { <<"h","e","l","p">>, <<"q","u","e","s","t","i","o","n">>, <<"f","a","q">> } >>
TopicReply == <<MissionText, TeamListing, EcosystemListing, FaqListing>>

\* kw occurs in s: some suffix of s starts with kw.
Occurs(kw, s) ==
  \E d \in 0..Len(s) :
    /\ d + Len(kw) <= Len(s)
    /\ \A j \in 1..Len(kw) : s[d + j] = kw[j]

\* The topics one of whose keywords occurs in the lower-cased text.
TopicsHit(text) ==
  { n \in 1..4 : \E kw \in TopicKeywords[n] : Occurs(kw, Lower(text)) }

\* The reply the priority order gives for a text.
ReplyByPriority(text) ==
  LET hit == TopicsHit(text) IN
  IF hit = {} THEN FallbackText
  ELSE TopicReply[CHOOSE n \in hit : \A m \in hit : n <= m]

\* C1: for every text, process_message returns the reply of the first keyword
\* set in the order Mission, Team, Ecosystems, FAQ one of whose keywords
\* occurs in the lower-cased text, and the fallback reply exactly when no
\* keyword occurs; a text with a Mission keyword gets the Mission reply
\* whatever else it contains.
C1_FirstMatchingTopicWins ==
  ret_text # <<>> =>
    /\ ret_text[1] = ReplyByPriority(arg_text)
    /\ (ret_text[1] = FallbackText) <=> (TopicsHit(arg_text) = {})
    /\ 1 \in TopicsHit(arg_text) => ret_text[1] = MissionText

\* A text in capitals with a Mission and a Team keyword has got the Mission reply.
C1_Witness ==
  /\ ret_text = <<MissionText>>
  /\ {1, 2} \subseteq TopicsHit(arg_text)
  /\ arg_text # Lower(arg_text)


----------------------------------------------------------------------------
(* The scheduler's claims, under SpecSched.                                *)

\* The fire time of day d, in local time.
FireTime(d) == d * DayLen + FireAt

\* The days the clock can be in.
Days == 0..((MaxTime + MaxTz) \div DayLen)

\* The loop has been through local time l: the clock is past it, or at it
\* with this tick's run_pending already made.
PolledThrough(l) ==
  \/ Local(now) > l
  \/ Local(now) = l /\ sched_pc \in {"sleep", "sending", "dead"}

\* The broadcast sends invoked on day d.
SendsOn(d) == { i \in 1..Len(bcast) : DayOf(bcast[i].at) = d }

\* The loop was running when the fire time of day d came: it had begun
\* before, and the thread had not ended.
RunningAt(d) ==
  /\ started_at # <<>>
  /\ started_at[1] < FireTime(d)
  /\ died_at = <<>> \/ died_at[1] >= FireTime(d)

\* C2: the broadcast send is invoked exactly once for each calendar day whose
\* fire time is reached while the loop is running: never twice within one
\* day, and never skipped on a day whose fire time the running loop has
\* polled through.
C2_OncePerDay ==
  /\ \A d \in Days : Cardinality(SendsOn(d)) <= 1
  /\ \A d \in Days :
       (RunningAt(d) /\ PolledThrough(FireTime(d))) => Cardinality(SendsOn(d)) = 1
  /\ \A i \in 1..Len(bcast) : TimeOfDay(bcast[i].at) = FireAt

\* Three days in a row have had their broadcast, one of them after a send
\* that stayed blocked, and the fourth fire time is not reached yet.
C2_Witness ==
  /\ Len(bcast) = 3
  /\ \A i \in 1..3 : bcast[i].outcome = "ok"
  /\ DayOf(bcast[3].at) = DayOf(bcast[1].at) + 2
  /\ last_run # <<>> /\ last_run[1] > bcast[3].at

\* C3: when the dispatch of a daily broadcast fails, that broadcast is dropped
\* without retry and the scheduler keeps running: once the next day's fire
\* time has been reached the broadcast send has been invoked again.
C3_FailedBroadcastThenNextDay ==
  \A i \in 1..Len(bcast) :
    bcast[i].outcome = "raised" =>
      /\ SendsOn(DayOf(bcast[i].at)) = {i}
      /\ Local(now) > FireTime(DayOf(bcast[i].at) + 1)
           => SendsOn(DayOf(bcast[i].at) + 1) # {}

\* C5: every broadcast fired at unix time T is one send_message call to
\* ADMIN_CHAT_ID carrying the element at index T mod 4 of the four updates;
\* for T mod 4 = 2 it is the reforestation update.
C5_BroadcastByTimestamp ==
  /\ \A i \in 1..Len(bcast) :
       /\ bcast[i].chat = ADMIN_CHAT_ID
       /\ bcast[i].text = DailyUpdates[(bcast[i].T % 4) + 1]
       /\ bcast[i].T % 4 = 2 => bcast[i].text = ReforestationUpdate
  /\ \A i, j \in 1..Len(bcast) : bcast[i].T = bcast[j].T => i = j
  /\ Len(DailyUpdates) = 4

\* Two broadcasts have been fired, one of them at a timestamp with T mod 4 = 2.
C5_Witness ==
  /\ Len(bcast) >= 2
  /\ \E i \in 1..Len(bcast) : bcast[i].T % 4 = 2 /\ bcast[i].text = ReforestationUpdate
  /\ \E i \in 1..Len(bcast) : bcast[i].T % 4 # 2


----------------------------------------------------------------------------
(* The webhook's claims, under Spec.                                       *)

\* The calls of thread w's request that carry a message text to a chat.
TextCalls(w) ==
  SelectSeq(req[w].calls, LAMBDA c : c.fn \in {"reply_to", "send_message"})

\* Texts of the three topics and of none, as a user may type them.
MissionProbe == <<"M","i","s","s","i","o","n","?">>
TeamProbe == <<"T","E","A","M">>
EcosystemProbe == <<"p","r","o","j","e","c","t","i","l","e">>
UnknownProbe == <<"h","e","l","l","o">>

\* C4: for a callback whose data is "mission", the text sent to the chat is
\* exactly the answer of the first FAQ entry, and is not the Mission constant
\* that process_message returns for a Mission text.
C4_MissionButtonSendsFirstFaqAnswer ==
  \A w \in Workers :
    (req[w].update.kind = "callback" /\ req[w].update.data = "mission") =>
      /\ req[w].stage = "ok" => Len(TextCalls(w)) = 1
      /\ \A i \in 1..Len(TextCalls(w)) :
           /\ TextCalls(w)[i].chat = req[w].update.chat
           /\ TextCalls(w)[i].text = FAQS[1].answer
           /\ TextCalls(w)[i].text = FirstFaqAnswer
           /\ TextCalls(w)[i].text # process_message(req[w].update.chat, MissionProbe)
           /\ process_message(req[w].update.chat, MissionProbe) = MissionText

\* A "mission" callback has been answered and its text sent.
C4_Witness ==
  \E w \in Workers :
    /\ req[w].update.kind = "callback" /\ req[w].update.data = "mission"
    /\ req[w].stage = "ok"
    /\ Len(TextCalls(w)) = 1

\* C6: the response text of every handled event (free text, /start, button)
\* is passed to exactly one text-carrying call, reply_to or send_message:
\* never to none and never to two, and a /start message is answered by the
\* welcome path alone.
C6_EachResponseSentOnce ==
  \A w \in Workers :
    LET u == req[w].update IN
    /\ Len(TextCalls(w)) = Len(req[w].texts)
    /\ Len(TextCalls(w)) <= 1
    /\ \A i \in 1..Len(TextCalls(w)) : TextCalls(w)[i].text = req[w].texts[i]
    /\ u.kind = "message" =>
         /\ Len(req[w].texts) = 1
         /\ TextCalls(w)[1].chat = u.chat
         /\ TextCalls(w)[1].fn = "reply_to"
    /\ (u.kind = "message" /\ CommandOf(u.text) = <<"s","t","a","r","t">>) =>
         /\ req[w].handlers = <<"send_welcome">>
         /\ req[w].texts = <<WelcomeText>>
    /\ (u.kind = "message" /\ CommandOf(u.text) # <<"s","t","a","r","t">>) =>
         /\ req[w].handlers = <<"handle_message">>
         /\ req[w].texts = <<process_message(u.chat, u.text)>>
    /\ (u.kind = "callback" /\ req[w].stage = "ok"
          /\ u.data \in {"mission", "team", "ecosystems"}) =>
         /\ Len(req[w].texts) = 1
         /\ TextCalls(w)[1].chat = u.chat
         /\ TextCalls(w)[1].fn = "send_message"

\* "/start mission" has been answered, by the welcome text, while a button
\* callback on the other thread had answered its query and not yet sent its
\* text.
C6_Witness ==
  \E w, v \in Workers :
    /\ req[w].update.kind = "message"
    /\ req[w].update.text = <<"/","s","t","a","r","t"," ","m","i","s","s","i","o","n">>
    /\ req[w].stage = "ok"
    /\ TextCalls(w) = <<Call("reply_to", req[w].update.chat, WelcomeText)>>
    /\ req[v].update.kind = "callback"
    /\ req[v].stage = "in_call" /\ Len(req[v].calls) = 2

\* The step makes thread w's request fail.
Fails(w) == req[w]' # req[w] /\ req[w]'.stage = "failed"

\* C7: the handling of a request, and so of one during which the decoding or
\* an outbound call raises, changes nothing but that request: every step of
\* it leaves the content tables, the conversation state, the scheduler and
\* the other request in flight as they were, and after the step that makes
\* it fail a request is answered as it would have been before.
C7_FailedRequestChangesNothing ==
  [][ (req' # req) =>
        /\ content_vars' = content_vars
        /\ sched_vars' = sched_vars
        /\ main_pc' = main_pc
        /\ \E w \in Workers : \A v \in Workers \ {w} : req[v]' = req[v]
        /\ (\E w \in Workers : Fails(w)) =>
             /\ process_message("chat_1", UnknownProbe)' = process_message("chat_1", UnknownProbe)
             /\ callback_query(CallbackQuery("chat_2", "mission"), 0)'
                  = callback_query(CallbackQuery("chat_2", "mission"), 0)
    ]_vars

\* A request failed in an outbound call after the scheduler had sent a
\* broadcast, while the other thread was inside a call of its own request.
C7_Witness ==
  \E w, v \in Workers :
    /\ req[w].stage = "failed"
    /\ req[w].update.kind = "message"
    /\ Len(req[w].calls) = 1
    /\ req[v].stage = "in_call"
    /\ Len(bcast) = 1
    /\ conversation_state = EmptyDict

\* C8: the scheduler and the request handling share no mutable state: the
\* main thread gets to serve whatever the scheduler thread does; while it
\* serves, a request can arrive on a free thread and a call a handler is in
\* can return whether the scheduler thread sleeps, polls, is inside a send
\* or has ended; no step of the scheduler changes what a request handler
\* reads, and no step of a request changes the scheduler's state.
C8_SchedulerAndRequestsIndependent ==
  /\ []((sched_pc # "none" /\ main_pc \notin {"serving", "exited"}) =>
          ENABLED AppRun)
  /\ [](main_pc = "serving" =>
          \A w \in Workers :
            /\ req[w].stage = "in_call" => ENABLED CallReturns(w)
            /\ Free(w) => \E v \in Workers :
                 ENABLED WebhookBegins(v, CallbackQuery("chat_1", "mission")))
  /\ [][ (sched_vars' # sched_vars) =>
           (content_vars' = content_vars /\ req_vars' = req_vars) ]_vars
  /\ [][ (req_vars' # req_vars) => (sched_vars' = sched_vars) ]_vars

\* A button callback has been answered, both of its calls made, while the
\* scheduler thread was inside a send that has stayed blocked since.
C8_Witness ==
  \E w \in Workers :
    /\ req[w].in_send
    /\ req[w].stage = "ok"
    /\ Len(req[w].calls) = 2
    /\ sched_pc = "sending"
    /\ now > bcast[Len(bcast)].T

\* C9: the reply to a free text depends on the text alone: in every reachable
\* state process_message gives two chats the same reply to the same text,
\* the reply a handler has produced is the one any chat would get now, and
\* the content tables hold the values they were loaded with.
C9_ReplyDependsOnTextAlone ==
  /\ TEAM_MEMBERS = TeamMembersData
  /\ ECOSYSTEMS = EcosystemsData
  /\ FAQS = FaqsData
  /\ \A t \in {TeamProbe, UnknownProbe} :
       process_message("chat_1", t) = process_message("chat_2", t)
  /\ process_message("chat_1", TeamProbe) = TeamListing
  /\ process_message("chat_2", UnknownProbe) = FallbackText
  /\ \A w \in Workers :
       req[w].handlers = <<"handle_message">> =>
         \A c \in ChatIds : req[w].texts = <<process_message(c, req[w].update.text)>>

\* A free text has been answered after a broadcast was sent, and after the
\* other thread had answered another chat.
C9_Witness ==
  \E w, v \in Workers :
    /\ req[w].handlers = <<"handle_message">>
    /\ req[w].stage = "ok"
    /\ req[w].update.chat = "chat_2"
    /\ req[w].texts = <<TeamListing>>
    /\ req[v].stage = "ok" /\ req[v].update.chat = "chat_1"
    /\ Len(bcast) = 1 /\ bcast[1].outcome = "ok"

\* C10: the text sent for callback data "team" is the reply process_message
\* gives a Team text, the text sent for "ecosystems" is its reply to an
\* Ecosystems text, and no callback data makes the FAQ listing or the
\* fallback text be sent.
C10_ButtonsMatchFreeText ==
  \A w \in Workers :
    LET u == req[w].update IN
    u.kind = "callback" =>
      /\ \A i \in 1..Len(TextCalls(w)) :
           /\ u.data = "team" =>
                TextCalls(w)[i].text = process_message(u.chat, TeamProbe)
           /\ u.data = "ecosystems" =>
                TextCalls(w)[i].text = process_message(u.chat, EcosystemProbe)
           /\ TextCalls(w)[i].text \notin {FaqListing, FallbackText}
      /\ u.data \notin {"mission", "team", "ecosystems"} => req[w].calls = <<>>
      /\ process_message(u.chat, TeamProbe) = TeamListing
      /\ process_message(u.chat, EcosystemProbe) = EcosystemListing

\* A "team" callback has been answered with the team listing.
C10_Witness ==
  \E w \in Workers :
    /\ req[w].update.kind = "callback" /\ req[w].update.data = "team"
    /\ req[w].stage = "ok"
    /\ Len(TextCalls(w)) = 1 /\ TextCalls(w)[1].text = TeamListing

============================================================================
